---- MODULE Spec2Model ----
(***************************************************************************)
(* A model of rabbit-revival: the stream scan (fetch_messages,             *)
(* replay_time_frame, replay_header), the management probe                 *)
(* (get_queue_message_count), the republisher (publish_message) and the    *)
(* timeframe predicate (is_within_timeframe) of src/src/replay.rs, driven  *)
(* by the handlers of src/src/lib.rs.                                      *)
(*                                                                         *)
(* Encodings.  Byte strings and strings are integer codes.  Option<T> is a *)
(* record [some, v].  64-bit integers are scaled to 4 bits: u64 is 0..15,  *)
(* i64 is -8..7 and chrono's representable range of milliseconds is -5..5, *)
(* so that the cast `as i64` and the unwrap of timestamp_millis_opt keep   *)
(* their wrapping and their failure.                                       *)
(***************************************************************************)
EXTENDS Integers, Sequences, FiniteSets, TLC

VARIABLES
    tf,         \* the call of is_within_timeframe under test (SpecTimeframe)
    body,       \* the JSON body the replay endpoint decodes (SpecDecode)
    req,        \* per request: position, arguments, locals and result
    stream,     \* the queue's log: the deliveries a consumer gets from "first"
    free,       \* connections the pool can still lease
    published,  \* every basic_publish the service made, in order
    uuids,      \* how many v4 ids have been generated
    config      \* MessageOptions: [transaction_header, enable_timestamp]

vars == <<tf, body, req, stream, free, published, uuids, config>>

-----------------------------------------------------------------------------
(* Bounds of the model *)

MaxLen == 2          \* messages other publishers append to the stream

(* Scaled integer widths and time units *)
U64Modulus == 16     \* 2^64, scaled
I64Max == 7          \* i64::MAX, scaled
ChronoMaxMillis == 5 \* the last millisecond chrono's DateTime represents, scaled
TicksPerMilli == 2   \* a DateTime counts ticks finer than a millisecond, scaled

-----------------------------------------------------------------------------
(* Option<T> *)

Some(x) == [some |-> TRUE, v |-> x]
NoneInt == [some |-> FALSE, v |-> 0]

U64 == 0..(U64Modulus - 1)
Millis == (0 - ChronoMaxMillis)..ChronoMaxMillis
\* chrono::DateTime<Utc>, in ticks since the epoch
DateTimes == ((0 - ChronoMaxMillis) * TicksPerMilli)..(ChronoMaxMillis * TicksPerMilli + (TicksPerMilli - 1))
OptU64 == {NoneInt} \cup {Some(x) : x \in U64}
OptDateTime == {NoneInt} \cup {Some(x) : x \in DateTimes}

\* `x as i64` for a u64 x: two's complement reinterpretation
AsI64(x) == IF x > I64Max THEN x - U64Modulus ELSE x

\* `x as u64` for an i64 x
AsU64(x) == IF x < 0 THEN x + U64Modulus ELSE x

\* Utc.timestamp_millis_opt(ms): LocalResult::Single(DateTime) or LocalResult::None
timestamp_millis_opt(ms) ==
    IF ms \in Millis THEN Some(ms * TicksPerMilli) ELSE NoneInt

\* DateTime::timestamp_millis(): the whole milliseconds, rounded down
timestamp_millis(dt) == dt \div TicksPerMilli

-----------------------------------------------------------------------------
(* is_within_timeframe: "SomeTrue", "SomeFalse", "None", or "Panic" when the
   unwrap of timestamp_millis_opt fails *)

is_within_timeframe(date, from, to) ==
    IF date.some
    THEN LET d == timestamp_millis_opt(AsI64(date.v))
         IN  IF ~d.some THEN "Panic"
             ELSE CASE from.some /\ to.some ->
                         IF d.v >= from.v /\ d.v <= to.v THEN "SomeTrue" ELSE "SomeFalse"
                    [] from.some /\ ~to.some ->
                         IF d.v >= from.v THEN "SomeTrue" ELSE "SomeFalse"
                    [] ~from.some /\ to.some ->
                         IF d.v <= to.v THEN "SomeTrue" ELSE "SomeFalse"
                    [] OTHER -> "SomeTrue"
    ELSE IF ~from.some /\ ~to.some THEN "None" ELSE "SomeFalse"

-----------------------------------------------------------------------------
(* AMQP values, header tables, deliveries *)

OffsetHeader == "x-stream-offset"
TxHeader == "x-stream-transaction-id"
HeaderNames == {OffsetHeader, TxHeader}

Absent == [type |-> "Absent", val |-> 0]
LongString(s) == [type |-> "LongString", val |-> s]
LongLongInt(n) == [type |-> "LongLongInt", val |-> n]

\* FieldTable::default(), insert, inner().get(name)
EmptyTable == [h \in HeaderNames |-> Absent]
Insert(t, name, value) == [t EXCEPT ![name] = value]
Get(t, name) == t[name]

SomeTable(t) == [some |-> TRUE, v |-> t]
NoneTable == [some |-> FALSE, v |-> EmptyTable]

\* String::from_utf8_lossy in the place of String::from_utf8
from_utf8_lossy(bytes) == [ok |-> TRUE, v |-> IF bytes = 0 THEN 3 ELSE bytes]

\* Byte strings are codes: 0 is a byte string that is not UTF-8, 3 is the
\* string U+FFFD, every other code is a UTF-8 string that is its own text.
\* String::from_utf8: Ok(text) or Err
from_utf8(bytes) == IF bytes = 0 THEN [ok |-> FALSE, v |-> 0] ELSE [ok |-> TRUE, v |-> bytes]
\* LongString's to_string (String::from_utf8_lossy)
to_string(bytes) == IF bytes = 0 THEN 3 ELSE bytes
\* Uuid::new_v4().to_string(): the n-th id generated; v4 ids are taken to be
\* collision free and unknown to other publishers
new_v4(n) == 3 + n

Queue == "replay"

\* what a publisher sends: basic_publish(exchange, routing_key, data, properties)
Publish(exchange, routing_key, data, timestamp, headers) ==
    [exchange |-> exchange, routing_key |-> routing_key, data |-> data,
     timestamp |-> timestamp, headers |-> headers]

\* the broker routes to the stream what is published to the default exchange
\* under the queue's name
RoutesToQueue(p) == p.exchange = "" /\ p.routing_key = Queue

\* the delivery the consumer gets for a message appended at offset `off`;
\* `shape` is how the broker exposes the offset
Deliver(p, shape, off) ==
    LET t == IF p.headers.some THEN p.headers.v ELSE EmptyTable
    IN  [exchange |-> p.exchange, routing_key |-> p.routing_key, data |-> p.data,
         timestamp |-> p.timestamp,
         headers |-> CASE shape = "ok" -> SomeTable(Insert(t, OffsetHeader, LongLongInt(off)))
                       [] shape = "wrong_type" -> SomeTable(Insert(t, OffsetHeader, LongString(1)))
                       [] shape = "no_offset" -> SomeTable(t)
                       [] OTHER -> NoneTable]

\* the offset the broker gives the next message of the stream: one past the
\* highest it has given, each message taking one
next_offset ==
    LET given == {i \in 1..Len(stream) :
                    /\ stream[i].headers.some
                    /\ Get(stream[i].headers.v, OffsetHeader).type = "LongLongInt"}
        past == {Get(stream[i].headers.v, OffsetHeader).val + 1 : i \in given}
    IN  CHOOSE off \in past \cup {Len(stream)} :
            \A other \in past \cup {Len(stream)} : other <= off

Tx(v) == SomeTable(Insert(EmptyTable, TxHeader, v))

\* messages of other publishers; "ex" was bound to the queue under "other" when
\* they were published
ExternalMessages ==
    { Publish("", "replay", 1, Some(1), Tx(LongString(1))),
      Publish("", "replay", 2, Some(2), Tx(LongString(2))),
      Publish("ex", "other", 1, Some(3), NoneTable),
      Publish("", "replay", 2, NoneInt, Tx(LongString(1))),
      Publish("ex", "other", 0, Some(2), Tx(LongString(0))),
      Publish("", "replay", 1, Some(6), Tx(LongLongInt(1))) }

\* a stream queue exposes the offset; anything else does not
Shapes == {"ok", "wrong_type", "no_offset", "no_headers"}

NoDelivery == Deliver(Publish("", "", 0, NoneInt, NoneTable), "no_headers", 0)

-----------------------------------------------------------------------------
(* Report records *)

NoTransaction == [some |-> FALSE, name |-> "", value |-> 0]
\* TransactionHeader { name, value }
TransactionHeader(name, value) == [some |-> TRUE, name |-> name, value |-> value]

\* TransactionHeader::from_fieldtable(..).ok()
from_fieldtable(t, header_name) ==
    IF Get(t, header_name).type = "LongString"
    THEN TransactionHeader(header_name, to_string(Get(t, header_name).val))
    ELSE NoTransaction

Message(offset, transaction, timestamp, data) ==
    [offset |-> offset, transaction |-> transaction, timestamp |-> timestamp, data |-> data]

-----------------------------------------------------------------------------
(* Requests *)

\* the requests the server may be handling; Spec runs the first one alone,
\* SpecConcurrent both
Requests == {1, 2}
Alone == {1}

IdleRequest ==
    [pc |-> "idle", op |-> "none",
     from |-> NoneInt, to |-> NoneInt,                 \* MessageQuery / TimeFrameReplay
     header |-> [name |-> TxHeader, value |-> 0],      \* HeaderReplay.header
     message_count |-> 0,
     leased |-> FALSE,                                 \* holds a pooled connection
     consumer |-> FALSE,                               \* basic_consume has registered a consumer
     received |-> 0,                                   \* deliveries the consumer has yielded
     acked |-> 0,                                      \* deliveries acknowledged
     delivery |-> NoDelivery,                          \* the delivery of this iteration
     loop_exit |-> "none",                             \* how the scan loop ended
     messages |-> <<>>,                                \* Vec<Delivery> of a replay scan
     next |-> 1,                                       \* publish_message's position in messages
     records |-> <<>>,                                 \* Vec<Message>: the report
     now |-> 0,                                        \* Utc::now() of this publish iteration
     uuid |-> 0,                                       \* the id generated in this iteration
     waited |-> FALSE,                                 \* health's pool.get() found no free connection
     channel |-> "none",                               \* the ChannelState health has read
     result |-> "none", err |-> ""]

\* a JSON body with no field, not yet decoded
IdleBody ==
    [pc |-> "off", queue |-> "absent", from |-> "absent", to |-> "absent", header |-> "absent",
     result |-> "none"]

IdleTf == [pc |-> "off", date |-> NoneInt, from |-> NoneInt, to |-> NoneInt, result |-> "none"]

\* a return that keeps the connection leased
Return_leaking(q, result, err) ==
    [q EXCEPT !.pc = "done", !.result = result, !.err = err, !.consumer = FALSE]

\* the function returns or unwinds: what it leased goes back to the pool
Return(q, result, err) ==
    [q EXCEPT !.pc = "done", !.result = result, !.err = err,
              !.leased = FALSE, !.consumer = FALSE]

Released(q) == IF q.leased THEN 1 ELSE 0

-----------------------------------------------------------------------------
(* lib.rs: the handlers take a request *)

\* get_messages: GET /messages?queue&from&to
get_messages(r, from, to) ==
    /\ req[r].pc = "idle"
    /\ req' = [req EXCEPT ![r] = [@ EXCEPT !.pc = "probe", !.op = "list",
                                           !.from = from, !.to = to]]
    /\ UNCHANGED <<tf, body, stream, free, published, uuids, config>>

\* replay with ReplayMode::TimeFrameReplay
replay_TimeFrameReplay(r, from, to) ==
    /\ req[r].pc = "idle"
    /\ req' = [req EXCEPT ![r] = [@ EXCEPT !.pc = "probe", !.op = "time_frame",
                                           !.from = Some(from), !.to = Some(to)]]
    /\ UNCHANGED <<tf, body, stream, free, published, uuids, config>>

\* replay with ReplayMode::HeaderReplay
replay_HeaderReplay(r, name, value) ==
    /\ req[r].pc = "idle"
    /\ req' = [req EXCEPT ![r] = [@ EXCEPT !.pc = "probe", !.op = "header",
                                           !.header = [name |-> name, value |-> value]]]
    /\ UNCHANGED <<tf, body, stream, free, published, uuids, config>>

-----------------------------------------------------------------------------
(* get_queue_message_count and its caller's match *)

\* the management API's answer: the request fails, or a JSON body with an
\* optional "type" and an optional "messages"
ProbeResponses(counts) ==
    [http_ok : BOOLEAN, type : {"absent", "stream", "classic"},
     messages : [kind : {"u64"}, v : counts]
                \cup {[kind |-> "absent", v |-> 0], [kind |-> "other", v |-> 0]}]

\* the probe without its check of `type` (lines 304-308 left out)
get_queue_message_count_unchecked(q, res) ==
    IF ~res.http_ok THEN Return(q, "Err", "management transport")
    ELSE IF res.messages.kind = "absent" THEN Return(q, "Err", "Queue not found or empty")
    ELSE IF res.messages.kind = "other" THEN Return(q, "Panic", "messages is not a u64")
    ELSE [q EXCEPT !.pc = "lease", !.message_count = res.messages.v]

\* the probe with an absent `messages` read as a count of zero
get_queue_message_count_defaulting(q, res) ==
    IF ~res.http_ok THEN Return(q, "Err", "management transport")
    ELSE IF res.type \notin {"absent", "stream"} THEN Return(q, "Err", "Queue is not a stream")
    ELSE IF res.messages.kind = "other" THEN Return(q, "Panic", "messages is not a u64")
    ELSE [q EXCEPT !.pc = "lease", !.message_count = res.messages.v]

get_queue_message_count(q, res) ==
    IF ~res.http_ok THEN Return(q, "Err", "management transport")
    ELSE IF res.type \notin {"absent", "stream"} THEN Return(q, "Err", "Queue is not a stream")
    ELSE IF res.messages.kind = "absent" THEN Return(q, "Err", "Queue not found or empty")
    ELSE IF res.messages.kind = "other" THEN Return(q, "Panic", "messages is not a u64")
    ELSE [q EXCEPT !.pc = "lease", !.message_count = res.messages.v]

Probe(r, res) ==
    /\ req[r].pc = "probe"
    /\ req' = [req EXCEPT ![r] = get_queue_message_count(@, res)]
    /\ UNCHANGED <<tf, body, stream, free, published, uuids, config>>

-----------------------------------------------------------------------------
(* The scan: pool.get, create_channel, basic_qos, basic_consume, the loop *)

\* pool.get().await?: waits while every connection is leased
pool_get(r, ok) ==
    /\ req[r].pc = "lease"
    /\ free > 0
    /\ IF ok
       THEN /\ req' = [req EXCEPT ![r] = [@ EXCEPT !.pc = "setup", !.leased = TRUE]]
            /\ free' = free - 1
       ELSE /\ req' = [req EXCEPT ![r] = Return(@, "Err", "pool")]
            /\ free' = free
    /\ UNCHANGED <<tf, body, stream, published, uuids, config>>

\* create_channel, basic_qos(1000), basic_consume(queue, tag, x-stream-offset = "first")
basic_consume(r, ok) ==
    /\ req[r].pc = "setup"
    /\ IF ok
       THEN /\ req' = [req EXCEPT ![r] = [@ EXCEPT !.pc = "next", !.consumer = TRUE]]
            /\ free' = free
       ELSE /\ req' = [req EXCEPT ![r] = Return(@, "Err", "broker transport")]
            /\ free' = free + Released(req[r])
    /\ UNCHANGED <<tf, body, stream, published, uuids, config>>

\* a replay scan that hands its connection on to replay instead of dropping it
EndScan_holding(q, how) ==
    IF q.op = "list"
    THEN [Return(q, "Ok", "") EXCEPT !.loop_exit = how]
    ELSE [q EXCEPT !.pc = "publish_lease", !.loop_exit = how, !.consumer = FALSE]

\* the loop is left: fetch_messages returns Ok(messages); a replay scan returns
\* Ok(messages) to replay, which calls publish_message
EndScan(q, how) ==
    IF q.op = "list"
    THEN [Return(q, "Ok", "") EXCEPT !.loop_exit = how]
    ELSE [q EXCEPT !.pc = "publish_lease", !.loop_exit = how,
                   !.leased = FALSE, !.consumer = FALSE]

\* consumer.next().await yields Some(Ok(delivery))
consumer_next(r) ==
    /\ req[r].pc = "next"
    /\ req[r].received < Len(stream)
    /\ req' = [req EXCEPT ![r] = [@ EXCEPT !.pc = "ack", !.received = @ + 1,
                                           !.delivery = stream[req[r].received + 1]]]
    /\ UNCHANGED <<tf, body, stream, free, published, uuids, config>>

\* consumer.next().await yields None or Some(Err(_)): `while let` leaves the loop
consumer_error(r) ==
    /\ req[r].pc = "next"
    /\ req' = [req EXCEPT ![r] = EndScan(@, "consumer")]
    /\ free' = free + Released(req[r])
    /\ UNCHANGED <<tf, body, stream, published, uuids, config>>

\* the acknowledgement with its result dropped: the loop body goes on
ack_unchecked(r, ok) ==
    /\ req[r].pc = "ack"
    /\ req' = [req EXCEPT ![r] = [@ EXCEPT !.pc = "handle",
                                           !.acked = IF ok THEN @ + 1 ELSE @]]
    /\ UNCHANGED <<tf, body, stream, free, published, uuids, config>>

\* delivery.ack(BasicAckOptions::default()).await?
ack(r, ok) ==
    /\ req[r].pc = "ack"
    /\ IF ok
       THEN /\ req' = [req EXCEPT ![r] = [@ EXCEPT !.pc = "handle", !.acked = @ + 1]]
            /\ free' = free
       ELSE /\ req' = [req EXCEPT ![r] = Return(@, "Err", "broker transport")]
            /\ free' = free + Released(req[r])
    /\ UNCHANGED <<tf, body, stream, published, uuids, config>>

\* i64::try_from(message_count - 1): the subtraction of 1 from 0 panics with
\* overflow checks and wraps to u64::MAX without, which try_from refuses
last_offset(message_count, overflow_checks) ==
    IF message_count = 0
    THEN IF overflow_checks THEN [kind |-> "Panic", v |-> 0] ELSE [kind |-> "Err", v |-> 0]
    ELSE IF message_count - 1 > I64Max THEN [kind |-> "Err", v |-> 0]
    ELSE [kind |-> "Ok", v |-> message_count - 1]

\* the comparison with == in place of >=
is_last_equal(offset, last) == offset = last

\* the comparison with > in place of >=
is_last_exclusive(offset, last) == offset > last

\* *offset >= i64::try_from(message_count - 1)?
is_last(offset, last) == offset >= last

\* a selected delivery handed to the republisher before the next one is pulled
Continue_republishing(q) ==
    [q EXCEPT !.pc = IF q.op \in {"time_frame", "header"} /\ q.next <= Len(q.messages)
                     THEN "publish" ELSE "next"]

Continue(q) == [q EXCEPT !.pc = "next"]

\* a loop without the comparison of the offset: it goes on to whatever the
\* consumer yields
AfterDelivery_unbounded(q, offset, last) == Continue(q)

AfterDelivery(q, offset, last) ==
    IF is_last(offset, last) THEN EndScan(q, "break") ELSE Continue(q)

\* the transaction header of a listed delivery
read_transaction(headers, transaction_header) ==
    IF transaction_header.some /\ Get(headers, transaction_header.v).type = "LongString"
    THEN TransactionHeader(transaction_header.v, to_string(Get(headers, transaction_header.v).val))
    ELSE NoTransaction

\* the body of fetch_messages' loop after the ack
fetch_messages(q, delivery, overflow_checks, transaction_header) ==
    IF ~delivery.headers.some THEN Return(q, "Err", "No headers found")
    ELSE
    LET headers == delivery.headers.v
        transaction == read_transaction(headers, transaction_header)
        offset == Get(headers, OffsetHeader)
        within == is_within_timeframe(delivery.timestamp, q.from, q.to)
        last == last_offset(q.message_count, overflow_checks)
        data == from_utf8(delivery.data)
        message == Message(Some(AsU64(offset.val)), transaction,
                           IF within = "SomeTrue"
                           THEN timestamp_millis_opt(AsI64(delivery.timestamp.v))
                           ELSE NoneInt,
                           data.v)
    IN  IF offset.type # "LongLongInt" THEN Return(q, "Err", "x-stream-offset not found")
        ELSE IF within = "Panic" THEN Return(q, "Panic", "No such local time")
        ELSE IF last.kind = "Panic" THEN Return(q, "Panic", "attempt to subtract with overflow")
        ELSE IF last.kind = "Err" THEN Return(q, "Err", "out of range integral type conversion")
        ELSE IF within = "SomeFalse" THEN AfterDelivery(q, offset.val, last.v)
        ELSE IF ~data.ok THEN Return(q, "Err", "invalid utf-8 sequence")
        ELSE AfterDelivery([q EXCEPT !.records = Append(@, message)], offset.val, last.v)

\* the body of replay_time_frame's loop after the ack
replay_time_frame(q, delivery, overflow_checks) ==
    IF ~delivery.headers.some THEN Return(q, "Err", "No headers found")
    ELSE
    LET offset == Get(delivery.headers.v, OffsetHeader)
        within == is_within_timeframe(delivery.timestamp, q.from, q.to)
        last == last_offset(q.message_count, overflow_checks)
    IN  IF offset.type # "LongLongInt" THEN Return(q, "Err", "x-stream-offset not found")
        ELSE IF within = "Panic" THEN Return(q, "Panic", "No such local time")
        ELSE IF last.kind = "Panic" THEN Return(q, "Panic", "attempt to subtract with overflow")
        ELSE IF last.kind = "Err" THEN Return(q, "Err", "out of range integral type conversion")
        ELSE IF within = "SomeTrue"
             THEN AfterDelivery([q EXCEPT !.messages = Append(@, delivery)], offset.val, last.v)
        ELSE AfterDelivery(q, offset.val, last.v)

\* the comparison without the match on AMQPValue::LongString
header_matches_any_type(target_header, value) == to_string(target_header.val) = value

\* if let Some(AMQPValue::LongString(header)) = target_header
\*     { if *header.to_string() == header_replay.header.value
header_matches(target_header, value) ==
    target_header.type = "LongString" /\ to_string(target_header.val) = value

\* the loop body passing over a delivery without a usable x-stream-offset
replay_header_lenient(q, delivery, overflow_checks) ==
    IF ~delivery.headers.some THEN Continue(q)
    ELSE
    LET target_header == Get(delivery.headers.v, q.header.name)
        offset == Get(delivery.headers.v, OffsetHeader)
        last == last_offset(q.message_count, overflow_checks)
    IN  IF offset.type # "LongLongInt" THEN Continue(q)
        ELSE IF last.kind = "Panic" THEN Return(q, "Panic", "attempt to subtract with overflow")
        ELSE IF last.kind = "Err" THEN Return(q, "Err", "out of range integral type conversion")
        ELSE IF header_matches(target_header, q.header.value)
             THEN AfterDelivery([q EXCEPT !.messages = Append(@, delivery)], offset.val, last.v)
        ELSE AfterDelivery(q, offset.val, last.v)

\* the body of replay_header's loop after the ack
replay_header(q, delivery, overflow_checks) ==
    IF ~delivery.headers.some THEN Return(q, "Err", "No headers found")
    ELSE
    LET target_header == Get(delivery.headers.v, q.header.name)
        offset == Get(delivery.headers.v, OffsetHeader)
        last == last_offset(q.message_count, overflow_checks)
    IN  IF offset.type # "LongLongInt" THEN Return(q, "Err", "Queue is not a stream")
        ELSE IF last.kind = "Panic" THEN Return(q, "Panic", "attempt to subtract with overflow")
        ELSE IF last.kind = "Err" THEN Return(q, "Err", "out of range integral type conversion")
        ELSE IF header_matches(target_header, q.header.value)
             THEN AfterDelivery([q EXCEPT !.messages = Append(@, delivery)], offset.val, last.v)
        ELSE AfterDelivery(q, offset.val, last.v)

\* one iteration of the scan loop, after the ack
handle(r, overflow_checks) ==
    /\ req[r].pc = "handle"
    /\ req' = [req EXCEPT ![r] =
                 CASE @.op = "list" ->
                        fetch_messages(@, @.delivery, overflow_checks, config.transaction_header)
                   [] @.op = "time_frame" -> replay_time_frame(@, @.delivery, overflow_checks)
                   [] OTHER -> replay_header(@, @.delivery, overflow_checks)]
    /\ free' = free + (Released(req[r]) - Released(req'[r]))
    /\ UNCHANGED <<tf, body, stream, published, uuids, config>>

-----------------------------------------------------------------------------
(* publish_message *)

\* pool.get().await? of publish_message
publish_pool_get(r, ok) ==
    /\ req[r].pc = "publish_lease"
    /\ free > 0
    /\ IF ok
       THEN /\ req' = [req EXCEPT ![r] = [@ EXCEPT !.pc = "publish_channel", !.leased = TRUE]]
            /\ free' = free - 1
       ELSE /\ req' = [req EXCEPT ![r] = Return(@, "Err", "pool")]
            /\ free' = free
    /\ UNCHANGED <<tf, body, stream, published, uuids, config>>

\* connection.create_channel().await?; with nothing to publish the loop is
\* skipped and Ok(replayed_messages) returned
create_channel(r, ok) ==
    /\ req[r].pc = "publish_channel"
    /\ IF ok /\ req[r].messages # <<>>
       THEN /\ req' = [req EXCEPT ![r] = [@ EXCEPT !.pc = "publish"]]
            /\ free' = free
       ELSE /\ req' = [req EXCEPT ![r] =
                         IF ok THEN Return(@, "Ok", "") ELSE Return(@, "Err", "broker transport")]
            /\ free' = free + Released(req[r])
    /\ UNCHANGED <<tf, body, stream, published, uuids, config>>

NoHeader == [some |-> FALSE, v |-> ""]
SomeHeader(name) == [some |-> TRUE, v |-> name]

\* properties taken from the original delivery instead of being built anew
basic_props_copying(message, options, now, uuid) ==
    [timestamp |-> IF options.enable_timestamp THEN message.timestamp ELSE NoneInt,
     headers |-> IF options.transaction_header.some THEN message.headers ELSE NoneTable]

\* the BasicProperties of a republished message
basic_props(message, options, now, uuid) ==
    [timestamp |-> IF options.enable_timestamp
                   THEN Some(AsU64(timestamp_millis(now)))
                   ELSE NoneInt,
     headers |-> IF options.transaction_header.some
                 THEN SomeTable(Insert(EmptyTable, options.transaction_header.v, LongString(uuid)))
                 ELSE NoneTable]

\* the report record of a republished message
replayed_message(message, options, props, now) ==
    Message(NoneInt,
            IF options.transaction_header.some
            THEN from_fieldtable(props.headers.v, options.transaction_header.v)
            ELSE NoTransaction,
            IF options.enable_timestamp THEN Some(now) ELSE NoneInt,
            from_utf8(message.data).v)

\* a publish to the default exchange and the replayed queue
basic_publish_to_queue(message, props) ==
    Publish("", Queue, message.data, props.timestamp, props.headers)

\* channel.basic_publish(message.exchange, message.routing_key, .., message.data, basic_props)
basic_publish(message, props) ==
    Publish(message.exchange, message.routing_key, message.data, props.timestamp, props.headers)

\* an id shared by the messages of one request
uuid_per_request(generated, position) == new_v4(generated + 2 - position)

\* uuid::Uuid::new_v4().to_string() of this iteration
fresh_uuid(generated, position) == new_v4(generated + 1)

\* the selection taken from its end (Vec::pop in the place of the iterator)
next_message_popped(q) == q.messages[Len(q.messages) + 1 - q.next]

\* stream::iter(messages): s.next().await yields the messages front to back
next_message(q) == q.messages[q.next]

\* a failed publish passed over: the loop goes on with the next message
publish_failed_skipping(q) ==
    IF q.next = Len(q.messages)
    THEN Return([q EXCEPT !.now = 0, !.uuid = 0], "Ok", "")
    ELSE [q EXCEPT !.pc = "publish", !.next = @ + 1, !.now = 0, !.uuid = 0]

\* basic_publish(..).await?: the error leaves publish_message and replay
publish_failed(q) == Return(q, "Err", "broker transport")

\* the properties of this iteration, from the instant and the id it has taken
iteration_props(q) == basic_props(next_message(q), config, q.now, q.uuid)

\* the loop body up to the call of basic_publish: Utc::now() is read with
\* enable_timestamp, a uuid generated with a transaction header, the
\* properties built; the task then waits for the publish
publish_message_props(r, now) ==
    LET q == req[r]
        tagged == config.transaction_header.some
    IN  /\ q.pc = "publish"
        /\ uuids' = IF tagged THEN uuids + 1 ELSE uuids
        /\ req' = [req EXCEPT ![r] =
                     [q EXCEPT !.pc = "publish_await",
                               !.now = IF config.enable_timestamp THEN now ELSE 0,
                               !.uuid = IF tagged THEN fresh_uuid(uuids, q.next) ELSE 0]]
        /\ UNCHANGED <<tf, body, stream, free, published, config>>

\* the payload looked at before the publish: an undecodable message is not sent
basic_publish_await_decoding_first(r, ok) ==
    LET q == req[r]
        message == next_message(q)
        sent == basic_publish(message, iteration_props(q))
    IN  /\ q.pc = "publish_await"
        /\ IF ~from_utf8(message.data).ok
           THEN /\ req' = [req EXCEPT ![r] = Return(q, "Err", "invalid utf-8 sequence")]
                /\ UNCHANGED <<published, stream>>
           ELSE IF ~ok
           THEN /\ req' = [req EXCEPT ![r] = publish_failed(q)]
                /\ UNCHANGED <<published, stream>>
           ELSE /\ published' = Append(published, [message |-> sent, request |-> r, position |-> q.next])
                /\ stream' = IF RoutesToQueue(sent)
                             THEN Append(stream, Deliver(sent, "ok", next_offset))
                             ELSE stream
                /\ req' = [req EXCEPT ![r] = [q EXCEPT !.pc = "publish_record"]]
        /\ free' = free + (Released(q) - Released(req'[r]))
        /\ UNCHANGED <<tf, body, uuids, config>>

\* channel.basic_publish(..).await?: the broker takes the message and routes
\* it, or the call fails and the error leaves publish_message
basic_publish_await(r, ok) ==
    LET q == req[r]
        sent == basic_publish(next_message(q), iteration_props(q))
    IN  /\ q.pc = "publish_await"
        /\ IF ~ok
           THEN /\ req' = [req EXCEPT ![r] = publish_failed(q)]
                /\ UNCHANGED <<published, stream>>
           ELSE /\ published' = Append(published, [message |-> sent, request |-> r, position |-> q.next])
                /\ stream' = IF RoutesToQueue(sent)
                             THEN Append(stream, Deliver(sent, "ok", next_offset))
                             ELSE stream
                /\ req' = [req EXCEPT ![r] = [q EXCEPT !.pc = "publish_record"]]
        /\ free' = free + (Released(q) - Released(req'[r]))
        /\ UNCHANGED <<tf, body, uuids, config>>

\* the loop body after the publish: the payload is decoded and the record
\* pushed; after the last message Ok(replayed_messages), and the connection
\* is dropped with every return
publish_message_push(r) ==
    LET q == req[r]
        message == next_message(q)
        record == replayed_message(message, config, iteration_props(q), q.now)
        pushed == [q EXCEPT !.pc = "publish", !.records = Append(@, record), !.next = @ + 1,
                            !.now = 0, !.uuid = 0]
    IN  /\ q.pc = "publish_record"
        /\ req' = [req EXCEPT ![r] =
                     IF ~from_utf8(message.data).ok
                     THEN Return(q, "Err", "invalid utf-8 sequence")
                     ELSE IF q.next = Len(q.messages) THEN Return(pushed, "Ok", "")
                     ELSE pushed]
        /\ free' = free + (Released(q) - Released(req'[r]))
        /\ UNCHANGED <<tf, body, stream, published, uuids, config>>

-----------------------------------------------------------------------------
(* lib.rs: health *)

\* lapin::ChannelState
ChannelStates == {"Initial", "Connected", "Closing", "Closed", "Error"}

\* GET /health: the handler is entered and calls pool.get()
health(r) ==
    /\ req[r].pc = "idle"
    /\ req' = [req EXCEPT ![r] = [@ EXCEPT !.pc = "health_lease", !.op = "health",
                                           !.waited = (free = 0)]]
    /\ UNCHANGED <<tf, body, stream, free, published, uuids, config>>

\* pool.get().await.context(..)?: PoolConfig::new sets no wait timeout, the
\* call waits while every connection is leased
health_pool_get(r, ok) ==
    /\ req[r].pc = "health_lease"
    /\ free > 0
    /\ IF ok
       THEN /\ req' = [req EXCEPT ![r] = [@ EXCEPT !.pc = "health_channel", !.leased = TRUE]]
            /\ free' = free - 1
       ELSE /\ req' = [req EXCEPT ![r] =
                         Return(@, "Err", "Could not establish a connection to RabbitMQ")]
            /\ free' = free
    /\ UNCHANGED <<tf, body, stream, published, uuids, config>>

\* connection.create_channel().await.context(..)?; match channel.status().state()
health_status(q, ok, state) ==
    IF ~ok THEN Return(q, "Err", "Connection established, Could not create a channel")
    ELSE IF state = "Connected" THEN Return([q EXCEPT !.channel = state], "Ok", "")
    ELSE Return([q EXCEPT !.channel = state], "Err", "Chanel created, but not healthy")

health_create_channel(r, ok, state) ==
    /\ req[r].pc = "health_channel"
    /\ req' = [req EXCEPT ![r] = health_status(@, ok, state)]
    /\ free' = free + Released(req[r])
    /\ UNCHANGED <<tf, body, stream, published, uuids, config>>

-----------------------------------------------------------------------------
(* The broker: other publishers append to the stream *)

\* the deliveries of a stream queue carry their offset; the last two are
\* what a consumer gets from a queue that exposes none
ExternalDeliveries(off) ==
    {Deliver(p, "ok", off) : p \in ExternalMessages}
    \cup {Deliver(Publish("", "replay", 1, Some(1), Tx(LongString(1))), shape, off) :
            shape \in Shapes \ {"ok"}}

broker_append(delivery) ==
    /\ Len(stream) < MaxLen
    /\ stream' = Append(stream, delivery)
    /\ UNCHANGED <<tf, body, req, free, published, uuids, config>>

-----------------------------------------------------------------------------
(* The specification of the service *)

PoolSize == 1

\* MessageOptions read by initialize_state
MessageOptionsSet ==
    [transaction_header : {NoHeader, SomeHeader(TxHeader)}, enable_timestamp : BOOLEAN]

Init ==
    /\ tf = IdleTf
    /\ body = IdleBody
    /\ req = [r \in Requests |-> IdleRequest]
    /\ stream = <<>>
    /\ free = PoolSize
    /\ published = <<>>
    /\ uuids = 0
    /\ config \in MessageOptionsSet

\* the bounds of a list: none, or the second millisecond
ListBounds == {NoneInt, Some(2 * TicksPerMilli)}
\* the bounds of a replay window
WindowFrom == {1 * TicksPerMilli, 2 * TicksPerMilli}
WindowTo == {2 * TicksPerMilli, 3 * TicksPerMilli}
\* the headers of a replay by header
ReplayHeaders ==
    {[name |-> TxHeader, value |-> v] : v \in {1, 2, 3}} \cup {[name |-> OffsetHeader, value |-> 1]}
\* Utc::now()
Now == {4 * TicksPerMilli, 4 * TicksPerMilli + 1}

Next ==
    \/ \E r \in Alone, from \in ListBounds, to \in ListBounds : get_messages(r, from, to)
    \/ \E r \in Alone, from \in WindowFrom, to \in WindowTo : replay_TimeFrameReplay(r, from, to)
    \/ \E r \in Alone, header \in ReplayHeaders :
          replay_HeaderReplay(r, header.name, header.value)
    \/ \E r \in Alone, res \in ProbeResponses(0..MaxLen) : Probe(r, res)
    \/ \E r \in Alone, ok \in BOOLEAN : pool_get(r, ok)
    \/ \E r \in Alone, ok \in BOOLEAN : basic_consume(r, ok)
    \/ \E r \in Alone : consumer_next(r)
    \/ \E r \in Alone : consumer_error(r)
    \/ \E r \in Alone, ok \in BOOLEAN : ack(r, ok)
    \/ \E r \in Alone, overflow_checks \in BOOLEAN : handle(r, overflow_checks)
    \/ \E r \in Alone, ok \in BOOLEAN : publish_pool_get(r, ok)
    \/ \E r \in Alone, ok \in BOOLEAN : create_channel(r, ok)
    \/ \E r \in Alone, now \in Now : publish_message_props(r, now)
    \/ \E r \in Alone, ok \in BOOLEAN : basic_publish_await(r, ok)
    \/ \E r \in Alone : publish_message_push(r)
    \/ \E delivery \in ExternalDeliveries(Len(stream)) : broker_append(delivery)

Spec == Init /\ [][Next]_vars

-----------------------------------------------------------------------------
(* Two replay requests in flight, transaction tagging and timestamps on *)

InitConcurrent ==
    /\ tf = IdleTf
    /\ body = IdleBody
    /\ req = [r \in Requests |-> IdleRequest]
    /\ stream = <<>>
    /\ free = PoolSize
    /\ published = <<>>
    /\ uuids = 0
    /\ config = [transaction_header |-> SomeHeader(TxHeader), enable_timestamp |-> TRUE]

\* what other publishers append
ConcurrentDeliveries(off) ==
    {Deliver(Publish("", "replay", 1, Some(1), Tx(LongString(1))), "ok", off),
     Deliver(Publish("", "replay", 2, Some(2), Tx(LongString(2))), "ok", off)}
\* the probe answers with the type stream and a count
ConcurrentProbes ==
    {res \in ProbeResponses(1..MaxLen) : res.http_ok /\ res.type = "stream" /\ res.messages.kind = "u64"}
\* Utc::now(), inside the replay window
ConcurrentNow == {2 * TicksPerMilli, 2 * TicksPerMilli + 1}

NextConcurrent ==
    \/ \E r \in Requests : replay_TimeFrameReplay(r, 1 * TicksPerMilli, 3 * TicksPerMilli)
    \/ \E r \in Requests : replay_HeaderReplay(r, TxHeader, 1)
    \/ \E r \in Requests, res \in ConcurrentProbes : Probe(r, res)
    \/ \E r \in Requests : pool_get(r, TRUE)
    \/ \E r \in Requests : basic_consume(r, TRUE)
    \/ \E r \in Requests : consumer_next(r)
    \/ \E r \in Requests : ack(r, TRUE)
    \/ \E r \in Requests, overflow_checks \in BOOLEAN : handle(r, overflow_checks)
    \/ \E r \in Requests : publish_pool_get(r, TRUE)
    \/ \E r \in Requests : create_channel(r, TRUE)
    \/ \E r \in Requests, now \in ConcurrentNow : publish_message_props(r, now)
    \/ \E r \in Requests : basic_publish_await(r, TRUE)
    \/ \E r \in Requests : publish_message_push(r)
    \/ \E delivery \in ConcurrentDeliveries(Len(stream)) : broker_append(delivery)

SpecConcurrent == InitConcurrent /\ [][NextConcurrent]_vars

-----------------------------------------------------------------------------
(* Two requests contending for the pool, every step of theirs may fail *)

\* what other publishers append: a message, a message with a payload that is
\* not UTF-8, a delivery without offset
ContendedDeliveries(off) ==
    {Deliver(Publish("", "replay", 1, Some(2), Tx(LongString(1))), "ok", off),
     Deliver(Publish("ex", "other", 0, Some(2), Tx(LongString(1))), "ok", off),
     Deliver(Publish("", "replay", 1, Some(2), Tx(LongString(1))), "no_offset", off)}
\* the probe fails or answers with a count
ContendedProbes ==
    {res \in ProbeResponses(1..MaxLen) :
        \/ res.http_ok /\ res.type = "stream" /\ res.messages.kind = "u64"
        \/ ~res.http_ok /\ res.type = "stream" /\ res.messages.kind = "absent"}

NextContended ==
    \/ \E r \in Requests : get_messages(r, NoneInt, NoneInt)
    \/ \E r \in Requests : replay_TimeFrameReplay(r, 1 * TicksPerMilli, 3 * TicksPerMilli)
    \/ \E r \in Requests, res \in ContendedProbes : Probe(r, res)
    \/ \E r \in Requests, ok \in BOOLEAN : pool_get(r, ok)
    \/ \E r \in Requests, ok \in BOOLEAN : basic_consume(r, ok)
    \/ \E r \in Requests : consumer_next(r)
    \/ \E r \in Requests : consumer_error(r)
    \/ \E r \in Requests, ok \in BOOLEAN : ack(r, ok)
    \/ \E r \in Requests, overflow_checks \in BOOLEAN : handle(r, overflow_checks)
    \/ \E r \in Requests, ok \in BOOLEAN : publish_pool_get(r, ok)
    \/ \E r \in Requests, ok \in BOOLEAN : create_channel(r, ok)
    \/ \E r \in Requests : publish_message_props(r, 2 * TicksPerMilli)
    \/ \E r \in Requests, ok \in BOOLEAN : basic_publish_await(r, ok)
    \/ \E r \in Requests : publish_message_push(r)
    \/ \E delivery \in ContendedDeliveries(Len(stream)) : broker_append(delivery)

SpecContended == InitConcurrent /\ [][NextContended]_vars

-----------------------------------------------------------------------------
(* Health requests beside a list request, on a pool that may be exhausted *)

NextHealth ==
    \/ \E r \in Requests : health(r)
    \/ \E r \in Requests, ok \in BOOLEAN : health_pool_get(r, ok)
    \/ \E r \in Requests, ok \in BOOLEAN, state \in ChannelStates : health_create_channel(r, ok, state)
    \/ \E r \in Requests : get_messages(r, NoneInt, NoneInt)
    \/ \E r \in Requests, res \in ContendedProbes : Probe(r, res)
    \/ \E r \in Requests, ok \in BOOLEAN : pool_get(r, ok)
    \/ \E r \in Requests, ok \in BOOLEAN : basic_consume(r, ok)
    \/ \E r \in Requests : consumer_next(r)
    \/ \E r \in Requests : consumer_error(r)
    \/ \E r \in Requests, ok \in BOOLEAN : ack(r, ok)
    \/ \E r \in Requests, overflow_checks \in BOOLEAN : handle(r, overflow_checks)
    \/ \E delivery \in ContendedDeliveries(Len(stream)) : broker_append(delivery)

SpecHealth == InitConcurrent /\ [][NextHealth]_vars

-----------------------------------------------------------------------------
(* Requests whose probe counts the messages the stream holds at that moment,
   while publishers and replays go on appending *)

\* the management API answers with the length of the stream
SnapshotProbes ==
    {res \in ProbeResponses({Len(stream)}) :
        res.http_ok /\ res.type = "stream" /\ res.messages.kind = "u64"}

NextSnapshot ==
    \/ \E r \in Requests : get_messages(r, NoneInt, NoneInt)
    \/ \E r \in Requests : replay_TimeFrameReplay(r, 1 * TicksPerMilli, 3 * TicksPerMilli)
    \/ \E r \in Requests, value \in {1, new_v4(1)} : replay_HeaderReplay(r, TxHeader, value)
    \/ \E r \in Requests, res \in SnapshotProbes : Probe(r, res)
    \/ \E r \in Requests : pool_get(r, TRUE)
    \/ \E r \in Requests : basic_consume(r, TRUE)
    \/ \E r \in Requests : consumer_next(r)
    \/ \E r \in Requests : ack(r, TRUE)
    \/ \E r \in Requests, overflow_checks \in BOOLEAN : handle(r, overflow_checks)
    \/ \E r \in Requests : publish_pool_get(r, TRUE)
    \/ \E r \in Requests : create_channel(r, TRUE)
    \/ \E r \in Requests : publish_message_props(r, 2 * TicksPerMilli)
    \/ \E r \in Requests : basic_publish_await(r, TRUE)
    \/ \E r \in Requests : publish_message_push(r)
    \/ \E delivery \in ConcurrentDeliveries(Len(stream)) : broker_append(delivery)

SpecSnapshot == InitConcurrent /\ [][NextSnapshot]_vars

-----------------------------------------------------------------------------
(* Scans of a stream whose offsets have gaps: retention has removed its head,
   or the broker has skipped offsets between two messages *)

\* the most offsets left out before a message
MaxGap == 2

\* the offsets the next message of the stream may get
NextOffsets ==
    {off \in next_offset..(next_offset + MaxGap) : off + MaxLen <= I64Max}

NextGaps ==
    \/ \E r \in Alone, from \in ListBounds, to \in ListBounds : get_messages(r, from, to)
    \/ \E r \in Alone : replay_TimeFrameReplay(r, 1 * TicksPerMilli, 3 * TicksPerMilli)
    \/ \E r \in Alone : replay_HeaderReplay(r, TxHeader, 1)
    \/ \E r \in Alone, res \in ConcurrentProbes : Probe(r, res)
    \/ \E r \in Alone : pool_get(r, TRUE)
    \/ \E r \in Alone : basic_consume(r, TRUE)
    \/ \E r \in Alone : consumer_next(r)
    \/ \E r \in Alone : ack(r, TRUE)
    \/ \E r \in Alone, overflow_checks \in BOOLEAN : handle(r, overflow_checks)
    \/ \E r \in Alone : publish_pool_get(r, TRUE)
    \/ \E r \in Alone : create_channel(r, TRUE)
    \/ \E r \in Alone : publish_message_props(r, 2 * TicksPerMilli)
    \/ \E r \in Alone : basic_publish_await(r, TRUE)
    \/ \E r \in Alone : publish_message_push(r)
    \/ \E off \in NextOffsets : \E delivery \in ConcurrentDeliveries(off) : broker_append(delivery)

SpecGaps == InitConcurrent /\ [][NextGaps]_vars

-----------------------------------------------------------------------------
(* A replay whose copies come back onto the stream it scans; the executor
   resumes the request whenever the step it waits for can be taken *)

NextFeedback ==
    \/ \E r \in Alone : replay_TimeFrameReplay(r, 1 * TicksPerMilli, 3 * TicksPerMilli)
    \/ \E r \in Alone : replay_HeaderReplay(r, TxHeader, 1)
    \/ \E r \in Alone, res \in ConcurrentProbes : Probe(r, res)
    \/ \E r \in Alone : pool_get(r, TRUE)
    \/ \E r \in Alone : basic_consume(r, TRUE)
    \/ \E r \in Alone : consumer_next(r)
    \/ \E r \in Alone : ack(r, TRUE)
    \/ \E r \in Alone, overflow_checks \in BOOLEAN : handle(r, overflow_checks)
    \/ \E r \in Alone : publish_pool_get(r, TRUE)
    \/ \E r \in Alone : create_channel(r, TRUE)
    \/ \E r \in Alone, now \in ConcurrentNow : publish_message_props(r, now)
    \/ \E r \in Alone : basic_publish_await(r, TRUE)
    \/ \E r \in Alone : publish_message_push(r)
    \/ \E delivery \in ConcurrentDeliveries(Len(stream)) : broker_append(delivery)

\* the task of a request is polled again when its await is ready
Resumed ==
    \A r \in Alone :
        /\ WF_vars(\E res \in ConcurrentProbes : Probe(r, res))
        /\ WF_vars(pool_get(r, TRUE))
        /\ WF_vars(basic_consume(r, TRUE))
        /\ WF_vars(consumer_next(r))
        /\ WF_vars(ack(r, TRUE))
        /\ WF_vars(\E overflow_checks \in BOOLEAN : handle(r, overflow_checks))
        /\ WF_vars(publish_pool_get(r, TRUE))
        /\ WF_vars(create_channel(r, TRUE))
        /\ WF_vars(\E now \in ConcurrentNow : publish_message_props(r, now))
        /\ WF_vars(basic_publish_await(r, TRUE))
        /\ WF_vars(publish_message_push(r))

SpecFeedback == InitConcurrent /\ [][NextFeedback]_vars /\ Resumed

-----------------------------------------------------------------------------
(* One request of each operation against every answer of the management API *)

NextProbe ==
    \/ \E r \in Alone : get_messages(r, NoneInt, NoneInt)
    \/ \E r \in Alone : replay_TimeFrameReplay(r, 1 * TicksPerMilli, 3 * TicksPerMilli)
    \/ \E r \in Alone : replay_HeaderReplay(r, TxHeader, 1)
    \/ \E r \in Alone, res \in ProbeResponses(0..MaxLen) : Probe(r, res)
    \/ \E r \in Alone, ok \in BOOLEAN : pool_get(r, ok)
    \/ \E r \in Alone, ok \in BOOLEAN : basic_consume(r, ok)
    \/ \E r \in Alone : consumer_next(r)
    \/ \E r \in Alone : consumer_error(r)
    \/ \E r \in Alone, ok \in BOOLEAN : ack(r, ok)
    \/ \E r \in Alone, overflow_checks \in BOOLEAN : handle(r, overflow_checks)
    \/ \E r \in Alone, ok \in BOOLEAN : publish_pool_get(r, ok)
    \/ \E r \in Alone, ok \in BOOLEAN : create_channel(r, ok)
    \/ \E r \in Alone : publish_message_props(r, 2 * TicksPerMilli)
    \/ \E r \in Alone, ok \in BOOLEAN : basic_publish_await(r, ok)
    \/ \E r \in Alone : publish_message_push(r)
    \/ \E delivery \in ContendedDeliveries(Len(stream)) : broker_append(delivery)

SpecProbe == InitConcurrent /\ [][NextProbe]_vars

-----------------------------------------------------------------------------
(* The decoder of the replay request: Json<ReplayMode>, an untagged enum *)

\* a field of the body is absent, of a type its struct cannot take, or well
\* typed: a string for `queue`, an RFC 3339 date for `from` and `to` (w1, w2),
\* an object {name, value} of strings for `header` (h1, h2)
QueueFields == {"absent", "invalid", "q"}
DateFields == {"absent", "invalid", "w1", "w2"}
HeaderFields == {"absent", "invalid", "h1", "h2"}
Bodies ==
    [pc : {"call"}, queue : QueueFields, from : DateFields, to : DateFields,
     header : HeaderFields, result : {"none"}]

\* #[derive(Deserialize)] of TimeFrameReplay: queue, from and to are required,
\* fields the struct does not name are ignored
deserialize_TimeFrameReplay(b) ==
    b.queue = "q" /\ b.from \in {"w1", "w2"} /\ b.to \in {"w1", "w2"}

\* #[derive(Deserialize)] of HeaderReplay: queue and header are required,
\* fields the struct does not name are ignored
deserialize_HeaderReplay(b) ==
    b.queue = "q" /\ b.header \in {"h1", "h2"}

\* #[serde(untagged)]: the variants are tried in the order of declaration and
\* the first that deserializes is taken; if none does, the body is rejected
deserialize_ReplayMode(b) ==
    IF deserialize_TimeFrameReplay(b) THEN "TimeFrameReplay"
    ELSE IF deserialize_HeaderReplay(b) THEN "HeaderReplay"
    ELSE "Rejected"

InitDecode ==
    /\ tf = IdleTf
    /\ body \in Bodies
    /\ req = [r \in Requests |-> IdleRequest]
    /\ stream = <<>>
    /\ free = PoolSize
    /\ published = <<>>
    /\ uuids = 0
    /\ config = [transaction_header |-> NoHeader, enable_timestamp |-> FALSE]

\* the Json extractor of the replay handler
decode_replay_body ==
    /\ body.pc = "call"
    /\ body' = [body EXCEPT !.pc = "returned", !.result = deserialize_ReplayMode(body)]
    /\ UNCHANGED <<tf, req, stream, free, published, uuids, config>>

NextDecode == decode_replay_body

SpecDecode == InitDecode /\ [][NextDecode]_vars

-----------------------------------------------------------------------------
(* The specification of is_within_timeframe alone *)

InitTimeframe ==
    /\ tf \in [pc : {"call"}, date : OptU64, from : OptDateTime, to : OptDateTime,
               result : {"none"}]
    /\ body = IdleBody
    /\ req = [r \in Requests |-> IdleRequest]
    /\ stream = <<>>
    /\ free = PoolSize
    /\ published = <<>>
    /\ uuids = 0
    /\ config = [transaction_header |-> NoHeader, enable_timestamp |-> FALSE]

call_is_within_timeframe ==
    /\ tf.pc = "call"
    /\ tf' = [tf EXCEPT !.pc = "returned",
                        !.result = is_within_timeframe(tf.date, tf.from, tf.to)]
    /\ UNCHANGED <<body, req, stream, free, published, uuids, config>>

NextTimeframe == call_is_within_timeframe

SpecTimeframe == InitTimeframe /\ [][NextTimeframe]_vars

-----------------------------------------------------------------------------
(* What the properties speak of *)

\* a delivery of a stream queue: headers with an x-stream-offset of type i64
WellFormed(d) == d.headers.some /\ Get(d.headers.v, OffsetHeader).type = "LongLongInt"

\* a millisecond timestamp as an instant, in ticks
InstantOf(ms) == ms * TicksPerMilli

\* the pool, the broker or the management API failed this request
TransportFault(q) ==
    \/ q.loop_exit = "consumer"
    \/ q.err \in {"pool", "broker transport", "management transport"}

\* the probe answered N >= 1 and the stream holds offsets 0..N-1
ScansStream(q) ==
    /\ q.message_count >= 1
    /\ Len(stream) >= q.message_count
    /\ \A i \in 1..q.message_count :
          WellFormed(stream[i]) /\ Get(stream[i].headers.v, OffsetHeader).val = i - 1

\* the first N deliveries of the stream
Snapshot(q) == SubSeq(stream, 1, q.message_count)

\* the publish of request r at position k of its selected messages
PublishedAt(r, k) ==
    CHOOSE p \in {published[i] : i \in 1..Len(published)} : p.request = r /\ p.position = k

Selected(p) == req[p.request].messages[p.position]

-----------------------------------------------------------------------------
(* C1 *)

\* the table of the claim: the timestamp is `date` milliseconds after the epoch
TableOfC1(date, from, to) ==
    IF date.some
    THEN IF (from.some => from.v <= InstantOf(date.v)) /\ (to.some => InstantOf(date.v) <= to.v)
         THEN "SomeTrue" ELSE "SomeFalse"
    ELSE IF ~from.some /\ ~to.some THEN "None" ELSE "SomeFalse"

\* C1: for every date, from and to, is_within_timeframe returns what the table
\* says: Some(from <= date <= to) with both bounds, Some(date >= from) or
\* Some(date <= to) with one, Some(true) with none, and for an absent date None
\* without bounds and Some(false) with one.
C1_ObeysTable ==
    tf.pc = "returned" => tf.result = TableOfC1(tf.date, tf.from, tf.to)

\* the table holds for the timestamps chrono represents without wrapping
C1_ObeysTableOnRepresentable ==
    (tf.pc = "returned" /\ (tf.date.some => tf.date.v <= ChronoMaxMillis))
        => tf.result = TableOfC1(tf.date, tf.from, tf.to)

-----------------------------------------------------------------------------
(* C2 *)

ListedAll(q) ==
    /\ q.result = "Ok"
    /\ Len(q.records) = q.message_count
    /\ \A i \in 1..q.message_count :
          /\ q.records[i].offset = Some(i - 1)
          /\ q.records[i].data = from_utf8(stream[i].data).v
          /\ q.records[i].timestamp = Some(InstantOf(stream[i].timestamp.v))

ListsAll(q) ==
    /\ q.op = "list" /\ ~q.from.some /\ ~q.to.some
    /\ q.pc = "done" /\ ~TransportFault(q)
    /\ ScansStream(q)
    /\ \A i \in 1..q.message_count :
          stream[i].timestamp.some /\ from_utf8(stream[i].data).ok

\* C2: a list without bounds of a stream of N >= 1 messages with offsets 0..N-1,
\* each with a timestamp and a text payload, probed as N, returns N records in
\* offset order, the i-th with offset i and the payload and timestamp of the
\* i-th message.
C2_ListReturnsEveryMessage ==
    \A r \in Requests : ListsAll(req[r]) => ListedAll(req[r])

\* the same for streams whose timestamps chrono represents
C2_ListReturnsEveryRepresentableMessage ==
    \A r \in Requests :
        (ListsAll(req[r]) /\ \A i \in 1..req[r].message_count :
                                 stream[i].timestamp.v <= ChronoMaxMillis)
            => ListedAll(req[r])

-----------------------------------------------------------------------------
(* C3 *)

\* C3: with a probe count N >= 1 a scan asks the consumer for a delivery only
\* while it has received fewer than N, and the loop is left by its break with
\* exactly N received: right after the first delivery whose offset is >= N-1.
C3_ScanStopsAtLastOffset ==
    \A r \in Requests :
        req[r].message_count >= 1 =>
            /\ req[r].pc = "next" => req[r].received < req[r].message_count
            /\ req[r].loop_exit = "break" => req[r].received = req[r].message_count

C3_Witness ==
    \E r \in Requests :
        /\ req[r].op = "time_frame"
        /\ req[r].loop_exit = "break"
        /\ req[r].message_count = 2
        /\ req[r].received = 2
        /\ Len(stream) = 2

-----------------------------------------------------------------------------
(* C4 *)

InWindow(d, from, to) ==
    d.timestamp.some /\ from.v <= InstantOf(d.timestamp.v) /\ InstantOf(d.timestamp.v) <= to.v

SelectsWindow(q) ==
    LET Test(d) == InWindow(d, q.from, q.to)
    IN  /\ q.loop_exit = "break"
        /\ q.messages = SelectSeq(Snapshot(q), Test)

\* C4: replay_time_frame(from, to) on a stream with offsets 0..N-1 probed as N
\* returns the deliveries whose timestamp is present and inside [from, to], in
\* offset order, and none without a timestamp.
C4_ReplayTimeFrameSelectsWindow ==
    \A r \in Requests :
        (req[r].op = "time_frame" /\ req[r].pc = "done" /\ ~TransportFault(req[r])
            /\ ScansStream(req[r]))
        => SelectsWindow(req[r])

\* the same for streams whose timestamps chrono represents
C4_ReplayTimeFrameSelectsRepresentable ==
    \A r \in Requests :
        (req[r].op = "time_frame" /\ req[r].pc = "done" /\ ~TransportFault(req[r])
            /\ ScansStream(req[r])
            /\ \A i \in 1..req[r].message_count : stream[i].timestamp.v <= ChronoMaxMillis)
        => SelectsWindow(req[r])

-----------------------------------------------------------------------------
(* C5 *)

\* the delivery binds `name` to a long string whose text is `value`
BindsText(d, name, value) ==
    Get(d.headers.v, name).type = "LongString" /\ to_string(Get(d.headers.v, name).val) = value

\* every delivery of the snapshot carries its own text under `name`
DistinctTexts(q) ==
    \A i, j \in 1..q.message_count :
        /\ Get(stream[i].headers.v, q.header.name).type = "LongString"
        /\ (i # j => to_string(Get(stream[i].headers.v, q.header.name).val)
                        # to_string(Get(stream[j].headers.v, q.header.name).val))

\* C5: replay_header(name, value) on a stream with offsets 0..N-1 probed as N
\* returns the deliveries that bind `name` to a long string with the text
\* `value`, in offset order; one without the header, or with another type under
\* it, is skipped.  When the messages carry distinct texts under `name`, a text
\* that is present selects one delivery.
C5_ReplayHeaderSelectsMatches ==
    \A r \in Requests :
        LET q == req[r]
            Test(d) == BindsText(d, q.header.name, q.header.value)
        IN  (q.op = "header" /\ q.pc = "done" /\ ~TransportFault(q) /\ ScansStream(q))
            => /\ q.loop_exit = "break"
               /\ q.messages = SelectSeq(Snapshot(q), Test)
               /\ (DistinctTexts(q) /\ \E i \in 1..q.message_count : Test(stream[i]))
                     => Len(q.messages) = 1

\* a replay by header that selected the second of two deliveries and skipped a
\* first one that holds an integer under the header
C5_Witness ==
    \E r \in Requests :
        LET q == req[r]
        IN  /\ q.op = "header" /\ q.pc = "done" /\ q.result = "Ok" /\ ScansStream(q)
            /\ q.message_count = 2
            /\ q.header = [name |-> TxHeader, value |-> 1]
            /\ Get(stream[1].headers.v, TxHeader) = LongLongInt(1)
            /\ q.messages = <<stream[2]>>

-----------------------------------------------------------------------------
(* C6 *)

\* C6: every message publish_message publishes goes to the exchange and the
\* routing key of the delivery it was selected from, with that delivery's
\* payload.
C6_PublishKeepsRouteAndPayload ==
    \A i \in 1..Len(published) :
        LET p == published[i]
        IN  /\ p.message.exchange = Selected(p).exchange
            /\ p.message.routing_key = Selected(p).routing_key
            /\ p.message.data = Selected(p).data

\* two messages published, to different exchanges
C6_Witness ==
    /\ Len(published) = 2
    /\ published[1].message.exchange = "ex"
    /\ published[1].message.routing_key = "other"
    /\ published[2].message.exchange = ""
    /\ published[1].message.data # published[2].message.data

-----------------------------------------------------------------------------
(* C7 *)

\* the table holds the entry `name` and no other
OnlyEntry(t, name) == \A h \in HeaderNames : (t[h] # Absent) <=> (h = name)

\* C7: the properties of a republished message follow from the options alone: a
\* timestamp, the milliseconds of now(), if and only if enable_timestamp; headers
\* if and only if a transaction header H is configured, and then the one entry H
\* bound to a generated id; nothing of the original's properties.
C7_PropertiesFromOptions ==
    \A i \in 1..Len(published) :
        LET m == published[i].message
        IN  /\ m.timestamp.some <=> config.enable_timestamp
            /\ m.timestamp.some => m.timestamp.v \in {timestamp_millis(now) : now \in Now}
            /\ m.headers.some <=> config.transaction_header.some
            /\ m.headers.some =>
                  /\ OnlyEntry(m.headers.v, config.transaction_header.v)
                  /\ Get(m.headers.v, config.transaction_header.v)
                        \in {LongString(new_v4(n)) : n \in 1..uuids}

\* a delivery with a timestamp and a transaction id of its own was republished
\* with both options on
C7_Witness ==
    /\ config.enable_timestamp /\ config.transaction_header.some
    /\ \E i \in 1..Len(published) :
          /\ Selected(published[i]).timestamp.some
          /\ Get(Selected(published[i]).headers.v, TxHeader).type = "LongString"
          /\ published[i].message.timestamp.some

-----------------------------------------------------------------------------
(* C8 *)

\* the record of a republished message and the message published for it
RecordMatches(record, m) ==
    /\ record.offset = NoneInt
    /\ record.transaction =
          IF config.transaction_header.some
          THEN TransactionHeader(config.transaction_header.v,
                                 Get(m.headers.v, config.transaction_header.v).val)
          ELSE NoTransaction

ReplayOps == {"time_frame", "header"}

\* C8: a record of a replay has no offset, the transaction {name, value}
\* injected into the message just published (none without a transaction header)
\* and as timestamp the instant stamped on that message (none when disabled).
C8_RecordEqualsPublished ==
    \A r \in Requests :
        req[r].op \in ReplayOps =>
            \A k \in 1..Len(req[r].records) :
                LET record == req[r].records[k]
                    m == PublishedAt(r, k).message
                IN  /\ RecordMatches(record, m)
                    /\ record.timestamp =
                          IF m.timestamp.some THEN Some(InstantOf(m.timestamp.v)) ELSE NoneInt

\* the record has no offset and the published transaction, and its timestamp,
\* cut to whole milliseconds, is the published one
C8_RecordEqualsPublishedToTheMillisecond ==
    \A r \in Requests :
        req[r].op \in ReplayOps =>
            \A k \in 1..Len(req[r].records) :
                LET record == req[r].records[k]
                    m == PublishedAt(r, k).message
                IN  /\ RecordMatches(record, m)
                    /\ record.timestamp.some = m.timestamp.some
                    /\ m.timestamp.some => timestamp_millis(record.timestamp.v) = m.timestamp.v

-----------------------------------------------------------------------------
(* C9 *)

\* the transaction id a published message carries under the configured header
IdOf(p) == Get(p.message.headers.v, config.transaction_header.v)

\* a replay is suspended at its first basic_publish, its id generated and
\* nothing published, while the other request has been probed and waits for
\* the pool
SuspendedAtBasicPublish ==
    \E r, s \in Requests :
        /\ r # s
        /\ req[r].pc = "publish_await" /\ req[r].next = 1 /\ req[r].uuid = new_v4(1)
        /\ req[r].leased /\ req[r].records = <<>>
        /\ published = <<>> /\ uuids = 1
        /\ req[s].pc = "lease"

\* C9: with a transaction header configured, the id of a republished message
\* is its own: it is not the id the original delivery carries, and no other
\* republished message, of this request or of another, has it.
C9_TransactionIdIsFresh ==
    config.transaction_header.some =>
        \A i \in 1..Len(published) :
            /\ published[i].message.headers.some
            /\ IdOf(published[i]).type = "LongString"
            /\ Selected(published[i]).headers.some =>
                  Get(Selected(published[i]).headers.v, config.transaction_header.v)
                      # IdOf(published[i])
            /\ \A j \in 1..Len(published) : i # j => IdOf(published[i]) # IdOf(published[j])

\* two requests have republished, one of them two messages, and one of the
\* originals was itself a republished message carrying a generated id
C9_Witness ==
    /\ config.transaction_header.some
    /\ \E i, j, k \in 1..Len(published) :
          /\ published[i].request = 1 /\ published[j].request = 2
          /\ published[k].position = 2
          /\ \E n \in 1..uuids :
                Get(Selected(published[j]).headers.v, TxHeader) = LongString(new_v4(n))

-----------------------------------------------------------------------------
(* C10 *)

\* C10: when the probe answers with a type that is present and not "stream",
\* with or without `messages`, the operation ends at once with the
\* not-a-stream error: no connection leased, no consumer, nothing received or
\* acknowledged.
C10_NotAStreamBeforeAnyLease ==
    [][\A r \in Requests, res \in ProbeResponses(0..MaxLen) :
          (Probe(r, res) /\ res.http_ok /\ res.type = "classic")
          => /\ req'[r].pc = "done"
             /\ req'[r].result = "Err"
             /\ req'[r].err = "Queue is not a stream"
             /\ ~req'[r].leased /\ ~req'[r].consumer
             /\ req'[r].received = 0 /\ req'[r].acked = 0
             /\ free' = free]_vars

\* a request refused by the probe although the stream holds messages
C10_Witness ==
    \E r \in Requests :
        /\ req[r].pc = "done"
        /\ req[r].err = "Queue is not a stream"
        /\ req[r].received = 0
        /\ Len(stream) >= 1
        /\ free = PoolSize

-----------------------------------------------------------------------------
(* C11 *)

\* the request ended at the probe with the queue-not-found-or-empty error
EndedNotFound(q) ==
    /\ q.pc = "done" /\ q.result = "Err" /\ q.err = "Queue not found or empty"
    /\ ~q.leased /\ ~q.consumer
    /\ q.received = 0 /\ q.acked = 0

\* C11, as claimed: whenever the probe's response has no `messages`, the
\* operation ends with the queue-not-found-or-empty error, nothing leased,
\* nothing consumed.
C11_NoMessagesFieldIsNotFound ==
    [][\A r \in Requests, res \in ProbeResponses(0..MaxLen) :
          (Probe(r, res) /\ res.http_ok /\ res.messages.kind = "absent")
          => (EndedNotFound(req'[r]) /\ free' = free)]_vars

\* C11, amended: whenever the probe's response has no `messages` and its type
\* is absent or "stream", the operation ends with the
\* queue-not-found-or-empty error, nothing leased, nothing consumed.
C11_NoMessagesFieldOfAStreamIsNotFound ==
    [][\A r \in Requests, res \in ProbeResponses(0..MaxLen) :
          (Probe(r, res) /\ res.http_ok /\ res.messages.kind = "absent"
                         /\ res.type \in {"absent", "stream"})
          => (EndedNotFound(req'[r]) /\ free' = free)]_vars

\* a replay ended as not found while the stream holds messages
C11_Witness ==
    \E r \in Requests :
        /\ req[r].op \in ReplayOps
        /\ EndedNotFound(req[r])
        /\ Len(stream) >= 1
        /\ free = PoolSize

-----------------------------------------------------------------------------
(* C12 *)

\* the steps of a request from the lease of its scan to its last publish
Scanning == {"lease", "setup", "next", "ack", "handle"}
Publishing == {"publish_lease", "publish_channel", "publish", "publish_await", "publish_record"}

\* C12: a request whose probed count is zero ends with an error before the
\* scan: it never leases for a scan, registers no consumer, waits for no
\* delivery and never evaluates message_count - 1.
C12_ZeroCountEndsBeforeScan ==
    \A r \in Requests :
        req[r].message_count = 0 =>
            /\ req[r].pc \notin Scanning \cup Publishing
            /\ ~req[r].consumer
            /\ req[r].received = 0
            /\ req[r].pc = "done" => req[r].result = "Err"
            /\ req[r].err \notin {"attempt to subtract with overflow",
                                  "out of range integral type conversion"}

-----------------------------------------------------------------------------
(* C13 *)

\* the publishes of request r
PublishedBy(r) == {i \in 1..Len(published) : published[i].request = r}

\* the errors of a delivery that is acknowledged and then found malformed
MalformedErrors ==
    {"broker transport", "No headers found", "x-stream-offset not found", "Queue is not a stream"}

\* C13: once a scan is past a delivery without a header table, without an
\* x-stream-offset or with an offset that is no signed 64-bit integer, the
\* request has ended with an error: it returns no records and republishes
\* nothing of what it gathered.
C13_MalformedDeliveryIsFatal ==
    \A r \in Requests :
        LET q == req[r]
        IN  (q.received >= 1 /\ ~WellFormed(q.delivery) /\ q.pc \notin {"ack", "handle"})
            => /\ q.pc = "done"
               /\ q.result = "Err"
               /\ q.err \in MalformedErrors
               /\ PublishedBy(r) = {}

\* a list that had gathered a record when its second delivery came with a
\* header table but without offset, and a replay stopped by such a delivery
\* after it had selected one
C13_Witness ==
    \E r \in Requests :
        LET q == req[r]
        IN  /\ q.pc = "done" /\ q.result = "Err"
            /\ q.received = 2
            /\ q.delivery.headers.some
            /\ Get(q.delivery.headers.v, OffsetHeader) = Absent
            /\ q.err \in {"x-stream-offset not found", "Queue is not a stream"}
            /\ Len(q.records) = 1 \/ Len(q.messages) = 1

-----------------------------------------------------------------------------
(* C14 *)

\* C14: a scan that met a broker failure, the consumer yielding an error
\* included, has ended with an error: it returned no success result and went on
\* to publish nothing.
C14_ScanFailureIsSurfaced ==
    \A r \in Requests :
        LET q == req[r]
        IN  (q.loop_exit = "consumer" \/ (q.err = "broker transport" /\ q.loop_exit = "none"))
            => /\ q.pc = "done"
               /\ q.result = "Err"
               /\ PublishedBy(r) = {}

\* the same for the failures of create_channel, basic_qos, basic_consume and ack
C14_SetupAndAckFailuresAreSurfaced ==
    \A r \in Requests :
        LET q == req[r]
        IN  (q.err = "broker transport" /\ q.loop_exit = "none")
            => /\ q.pc = "done"
               /\ q.result = "Err"
               /\ PublishedBy(r) = {}

-----------------------------------------------------------------------------
(* C15 *)

\* the positions of its selection that request r has published
PositionsPublishedBy(r) == {published[i].position : i \in PublishedBy(r)}

\* the stream holds the message of publish i
OnStream(i) ==
    \E j \in 1..Len(stream) : stream[j] = Deliver(published[i].message, "ok", j - 1)

\* C15: when the publish of the k-th selected message of a replay fails, the
\* request ends with an error and no report; the first k-1 messages, and no
\* other, are published and stay on the stream.
C15_PublishFailureKeepsEarlierPublishes ==
    /\ [][\A r \in Requests :
             basic_publish_await(r, FALSE)
             => /\ req'[r].pc = "done"
                /\ req'[r].result = "Err"
                /\ published' = published /\ stream' = stream]_vars
    /\ [](\A r \in Requests :
             LET q == req[r]
             IN  (q.op \in ReplayOps /\ q.loop_exit # "none" /\ q.err = "broker transport")
                 => /\ q.pc = "done"
                    /\ q.result = "Err"
                    /\ PositionsPublishedBy(r) = 1..(q.next - 1)
                    /\ \A i \in PublishedBy(r) :
                          RoutesToQueue(published[i].message) => OnStream(i))

\* the second publish of a replay failed after the first had reached the stream
C15_Witness ==
    \E r \in Requests :
        LET q == req[r]
        IN  /\ q.op \in ReplayOps /\ q.pc = "done" /\ q.err = "broker transport"
            /\ Len(q.messages) = 2 /\ q.next = 2
            /\ \E i \in PublishedBy(r) : published[i].position = 1 /\ OnStream(i)

-----------------------------------------------------------------------------
(* C16 *)

\* the payload is UTF-8, and then it is its own text
IsUtf8(bytes) == bytes # 0

\* the delivery a record reports: by its offset in a list, by its position in
\* the selection of a replay
ReportedBy(q, k) ==
    IF q.op = "list" THEN stream[q.records[k].offset.v + 1] ELSE q.messages[k]

\* the list has acknowledged and handled a delivery with an offset whose
\* payload is not UTF-8 and which the window of the list admits
ListMetUndecodable(q) ==
    /\ q.op = "list"
    /\ q.received >= 1 /\ q.acked = q.received
    /\ q.pc \notin {"ack", "handle"}
    /\ q.delivery.headers.some
    /\ Get(q.delivery.headers.v, OffsetHeader).type = "LongLongInt"
    /\ ~IsUtf8(q.delivery.data)
    /\ TableOfC1(q.delivery.timestamp, q.from, q.to) # "SomeFalse"

\* C16: every report record carries the payload of its delivery, which is
\* UTF-8; a request that meets a payload that is not, in a delivery it is to
\* list or has republished, ends with an error, and a replay that succeeds
\* reports every message it selected. A list that has handled such a delivery
\* has ended at it, not with Ok and with no record for it, and with the
\* decoding error whenever the terminal offset and the timestamp could be
\* computed.
C16_NoLossyPayload ==
    \A r \in Requests :
        LET q == req[r]
        IN  /\ \A k \in 1..Len(q.records) :
                  /\ IsUtf8(ReportedBy(q, k).data)
                  /\ q.records[k].data = ReportedBy(q, k).data
            /\ (q.op \in ReplayOps /\ q.pc = "done" /\ q.result = "Ok")
                  => Len(q.records) = Len(q.messages)
            /\ (q.op \in ReplayOps /\ q.pc = "done"
                  /\ \E i \in PublishedBy(r) : ~IsUtf8(published[i].message.data))
                  => q.result = "Err"
            /\ ListMetUndecodable(q) =>
                  /\ q.pc = "done" /\ q.result # "Ok"
                  /\ \A k \in 1..Len(q.records) :
                        q.records[k].offset
                          # Some(Get(q.delivery.headers.v, OffsetHeader).val)
                  /\ (/\ q.message_count >= 1
                      /\ q.delivery.timestamp.some
                            => q.delivery.timestamp.v <= ChronoMaxMillis)
                        => q.result = "Err" /\ q.err = "invalid utf-8 sequence"

\* a replay that had one record when it republished a payload that is not
\* UTF-8
C16_Witness ==
    \E r \in Requests :
        /\ req[r].op \in ReplayOps
        /\ \E i \in PublishedBy(r) : ~IsUtf8(published[i].message.data)
        /\ req[r].pc = "done" /\ req[r].result = "Err"
        /\ req[r].err = "invalid utf-8 sequence"
        /\ Len(req[r].records) = 1

\* a list that had emitted one record when it met, at the next offset, a
\* payload that is not UTF-8 inside its window: it ended there with the error
C16_ListWitness ==
    \E r \in Requests :
        /\ ListMetUndecodable(req[r])
        /\ req[r].received = 2 /\ req[r].message_count = 2
        /\ Len(req[r].records) = 1
        /\ req[r].pc = "done" /\ req[r].result = "Err"
        /\ req[r].err = "invalid utf-8 sequence"

-----------------------------------------------------------------------------
(* C17 *)

\* the requests that hold a pooled connection
Leased == {r \in Requests : req[r].leased}

\* C17: the connections out of the pool are those the running requests hold,
\* never more than the pool has; a request that has ended, with a result or
\* with any error, holds none, so that the pool is full again once every
\* request has ended.
C17_LeasesAreReturned ==
    /\ free + Cardinality(Leased) = PoolSize
    /\ free >= 0
    /\ Cardinality(Leased) <= PoolSize
    /\ \A r \in Requests : req[r].pc \in {"idle", "probe", "done"} => ~req[r].leased
    /\ (\A r \in Requests : req[r].pc \in {"idle", "done"}) => free = PoolSize

\* both requests have ended, one with an error after it had leased a
\* connection for its scan, the other after its publish failed
C17_Witness ==
    /\ free = PoolSize
    /\ \E r, s \in Requests :
          /\ r # s
          /\ req[r].pc = "done" /\ req[r].result = "Err" /\ req[r].received >= 1
          /\ req[s].pc = "done" /\ req[s].result = "Err" /\ PublishedBy(s) # {}

-----------------------------------------------------------------------------
(* C18 *)

\* the offset a delivery carries
OffsetOf(d) == Get(d.headers.v, OffsetHeader).val

\* C18: within a request the selection and the list are in ascending offset
\* order, the order of receipt; the messages are published one by one in the
\* order of the selection, one publish per position, and the k-th record
\* reports the k-th publish.
C18_OrderWithinARequest ==
    \A r \in Requests :
        LET q == req[r]
        IN  /\ \A i, j \in 1..Len(q.messages) :
                  i < j => OffsetOf(q.messages[i]) < OffsetOf(q.messages[j])
            /\ q.op = "list" =>
                  \A i, j \in 1..Len(q.records) :
                      i < j => q.records[i].offset.v < q.records[j].offset.v
            /\ \A i, j \in PublishedBy(r) :
                  i < j => published[i].position < published[j].position
            /\ \A i \in PublishedBy(r) :
                  /\ published[i].message.data = q.messages[published[i].position].data
                  /\ published[i].message.routing_key
                        = q.messages[published[i].position].routing_key
            /\ \E n \in 0..Len(q.messages) : PositionsPublishedBy(r) = 1..n
            /\ q.op \in ReplayOps =>
                  /\ Len(q.records) <= Cardinality(PublishedBy(r))
                  /\ \A k \in 1..Len(q.records) : q.records[k].data = q.messages[k].data

\* a replay has selected, published and reported two messages with different
\* payloads, the one with the lower offset first
C18_Witness ==
    \E r \in Requests :
        LET q == req[r]
        IN  /\ q.op \in ReplayOps /\ q.pc = "done" /\ q.result = "Ok"
            /\ Len(q.messages) = 2 /\ Len(q.records) = 2
            /\ q.messages[1].data # q.messages[2].data
            /\ OffsetOf(q.messages[1]) = 0 /\ OffsetOf(q.messages[2]) = 1
            /\ published[1].message.data = q.messages[1].data
            /\ published[2].message.data = q.messages[2].data

-----------------------------------------------------------------------------
(* C19 *)

\* the list is what the tri-valued predicate leaves of the snapshot: a record
\* per delivery that is not some(false), with the delivery's timestamp or none
ListsByPredicate(q) ==
    LET Emitted(d) == TableOfC1(d.timestamp, q.from, q.to) # "SomeFalse"
        sel == SelectSeq(Snapshot(q), Emitted)
    IN  /\ q.result = "Ok"
        /\ Len(q.records) = Len(sel)
        /\ \A k \in 1..Len(sel) :
              /\ q.records[k].offset = Some(OffsetOf(sel[k]))
              /\ q.records[k].data = sel[k].data
              /\ q.records[k].timestamp =
                    IF sel[k].timestamp.some
                    THEN Some(InstantOf(sel[k].timestamp.v)) ELSE NoneInt

\* a list that ran to its end over a stream of N messages with offsets 0..N-1
\* and text payloads
ListRan(q) ==
    /\ q.op = "list" /\ q.pc = "done" /\ ~TransportFault(q)
    /\ ScansStream(q)
    /\ \A i \in 1..q.message_count : IsUtf8(stream[i].data)

\* C19: fetch_messages emits a record for a delivery exactly when the
\* predicate is not some(false): with a bound, the deliveries with a timestamp
\* inside the window; without bounds every delivery, with its timestamp or
\* with none.
C19_ListEmitsUnlessSomeFalse ==
    \A r \in Requests : ListRan(req[r]) => ListsByPredicate(req[r])

\* the same for streams whose timestamps chrono represents
C19_ListEmitsRepresentableUnlessSomeFalse ==
    \A r \in Requests :
        (ListRan(req[r]) /\ \A i \in 1..req[r].message_count :
                                stream[i].timestamp.some => stream[i].timestamp.v <= ChronoMaxMillis)
            => ListsByPredicate(req[r])

-----------------------------------------------------------------------------
(* C20 *)

\* the body carries the fields of the time-window shape, of the header shape
HasWindow(b) == b.from \notin {"absent", "invalid"} /\ b.to \notin {"absent", "invalid"}
HasHeader(b) == b.header \notin {"absent", "invalid"}

\* C20: the decoder accepts a body only when it has exactly one of the two
\* shapes: a body with from/to and header, and a body with neither, is
\* rejected.
C20_DecoderRejectsBothAndNeither ==
    (body.pc = "returned" /\ (HasWindow(body) <=> HasHeader(body)))
        => body.result = "Rejected"

\* a body with neither from/to nor header is rejected, and a body taken as one
\* mode has that mode's fields
C20_DecoderRejectsNeither ==
    body.pc = "returned" =>
        /\ (~HasWindow(body) /\ ~HasHeader(body)) => body.result = "Rejected"
        /\ body.result = "TimeFrameReplay" => HasWindow(body)
        /\ body.result = "HeaderReplay" => HasHeader(body)

-----------------------------------------------------------------------------
(* C21: health on an exhausted pool *)

HealthDone(q) == q.op = "health" /\ q.pc = "done"

\* C21: a health request made while every pooled connection is leased reports
\* not-OK, and a health request reports OK only with a connection leased, a
\* channel created on it and the channel found in the state Connected
C21_HealthOnExhaustedPoolIsNotOk ==
    \A r \in Requests :
        HealthDone(req[r]) =>
            /\ req[r].waited => req[r].result = "Err"
            /\ req[r].result = "Ok" => req[r].channel = "Connected"

\* the part of C21 the handler keeps: OK is reported only for a created
\* channel in the state Connected
C21_HealthOkOnlyOnConnectedChannel ==
    \A r \in Requests :
        HealthDone(req[r]) =>
            (req[r].result = "Ok" <=> req[r].channel = "Connected")

-----------------------------------------------------------------------------
(* C22: the terminal delivery *)

\* the selection predicate of the request's operation, as the specification
\* states it
Matches(q, d) ==
    CASE q.op = "list" -> TableOfC1(d.timestamp, q.from, q.to) # "SomeFalse"
      [] q.op = "time_frame" -> TableOfC1(d.timestamp, q.from, q.to) = "SomeTrue"
      [] OTHER -> BindsText(d, q.header.name, q.header.value)

\* d is the last entry of the scan's result
EmittedLast(q, d) ==
    IF q.op = "list"
    THEN /\ Len(q.records) > 0
         /\ q.records[Len(q.records)].offset = Some(Get(d.headers.v, OffsetHeader).val)
    ELSE Len(q.messages) > 0 /\ q.messages[Len(q.messages)] = d

\* the scan loop has handled a well-formed delivery with an offset >= count-1
HandledTerminal(q) ==
    /\ q.op \in {"list", "time_frame", "header"}
    /\ q.message_count >= 1
    /\ q.received >= 1
    /\ q.pc \notin {"ack", "handle"}
    /\ ~TransportFault(q)
    /\ WellFormed(q.delivery)
    /\ Get(q.delivery.headers.v, OffsetHeader).val >= q.message_count - 1
    /\ (q.op = "list" => IsUtf8(q.delivery.data))

\* the snapshot's timestamps are present and strictly increasing, and the
\* window of the replay is the instant of the last one
WindowIsLastInstant(q) ==
    /\ q.op = "time_frame" /\ ScansStream(q)
    /\ \A i \in 1..q.message_count : stream[i].timestamp.some
    /\ \A i \in 1..(q.message_count - 1) : stream[i].timestamp.v < stream[i + 1].timestamp.v
    /\ q.from = Some(InstantOf(stream[q.message_count].timestamp.v))
    /\ q.to = q.from

TerminalAsAnyOther(q) ==
    /\ HandledTerminal(q) =>
          /\ q.loop_exit = "break"
          /\ Matches(q, q.delivery) <=> EmittedLast(q, q.delivery)
    /\ (HandledTerminal(q) /\ WindowIsLastInstant(q)) =>
          q.messages = <<stream[q.message_count]>>

Representable(d) == d.timestamp.some => d.timestamp.v <= ChronoMaxMillis

\* C22: in the three scans the delivery with the first offset >= count-1 is
\* emitted or selected if and only if the predicate matches it, the scan ends
\* after it in either case, and a window [t_last, t_last] over strictly
\* increasing timestamps selects the last message alone
C22_TerminalDeliveryAsAnyOther ==
    \A r \in Requests : TerminalAsAnyOther(req[r])

\* the same for terminal deliveries whose timestamp chrono represents
C22_RepresentableTerminalAsAnyOther ==
    \A r \in Requests : Representable(req[r].delivery) => TerminalAsAnyOther(req[r])

\* a window [t_last, t_last] selected the last of two messages alone
C22_WindowOfLastInstant ==
    \E r \in Requests :
        /\ HandledTerminal(req[r]) /\ WindowIsLastInstant(req[r])
        /\ req[r].message_count = 2
        /\ req[r].messages = <<stream[2]>>

-----------------------------------------------------------------------------
(* C23: acknowledge on receipt *)

\* C23: a delivery the scan has received is acknowledged before the loop body
\* inspects it and before the next one is requested, whether the predicate
\* then rejects it, it is the terminal one or it turns out malformed; the only
\* delivery left without acknowledgement is the one whose ack failed, and that
\* request has ended with an error and published nothing.
C23_AckBeforeInspection ==
    \A r \in Requests :
        LET q == req[r]
        IN  /\ q.acked <= q.received
            /\ (q.pc \in {"handle", "next"} \/ q.loop_exit = "break"
                  \/ q.result = "Panic"
                  \/ q.err \in MalformedErrors \ {"broker transport"})
                  => q.acked = q.received
            /\ q.acked # q.received =>
                  /\ q.acked = q.received - 1
                  /\ \/ q.pc = "ack"
                     \/ /\ q.pc = "done" /\ q.result = "Err" /\ q.err = "broker transport"
                        /\ PublishedBy(r) = {}

\* a replay by header acknowledged a delivery its predicate rejected and then
\* one that came without offset, and ended on the latter
C23_Witness ==
    \E r \in Requests :
        LET q == req[r]
        IN  /\ q.op = "header" /\ q.received = 2 /\ q.acked = 2
            /\ q.messages = <<>>
            /\ WellFormed(stream[1]) /\ ~WellFormed(stream[2])
            /\ q.err = "Queue is not a stream"

\* a list whose second acknowledgement failed ended with an error
C23_AckFailureWitness ==
    \E r \in Requests :
        LET q == req[r]
        IN  /\ q.op = "list" /\ q.received = 2 /\ q.acked = 1
            /\ q.pc = "done" /\ q.result = "Err"

-----------------------------------------------------------------------------
(* C24: a scan describes the snapshot of its own probe *)

\* the offsets of what the scan of q has emitted or selected
ResultOffsets(q) ==
    {OffsetOf(q.messages[k]) : k \in 1..Len(q.messages)}
    \cup (IF q.op = "list" THEN {q.records[k].offset.v : k \in 1..Len(q.records)} ELSE {})

\* C24: whatever other publishers and other replays append to the stream
\* after the probe of a request, the result of its scan holds no delivery with
\* an offset greater than count-1, count being the value this request probed
\* (offsets are contiguous from 0).
C24_ScanStaysInsideItsSnapshot ==
    \A r \in Requests : \A off \in ResultOffsets(req[r]) : off <= req[r].message_count - 1

\* a list probed two messages and has emitted the first; while it is in its
\* scan, at its terminal delivery, the replay of the other request has
\* appended a third message to the stream
C24_Witness ==
    /\ req[1].op = "list" /\ req[1].message_count = 2
    /\ req[1].pc = "handle" /\ req[1].received = 2 /\ Len(req[1].records) = 1
    /\ Len(stream) = 3
    /\ \E i \in 1..Len(published) : published[i].request = 2

\* the list has ended with the two messages of its snapshot, the stream
\* holding a third
C24_ListOfSnapshot ==
    /\ req[1].op = "list" /\ req[1].message_count = 2
    /\ req[1].result = "Ok" /\ Len(req[1].records) = 2
    /\ Len(stream) = 3

-----------------------------------------------------------------------------
(* C25: the flow of deliveries through a replay *)

\* the scan of q has pulled a delivery
Pulled(q) == q.pc \in {"ack", "handle"}

\* C25: in a replay the scanner does not pull the next delivery until the
\* delivery selected before it has been republished: selected deliveries are
\* not accumulated while the scan continues.
C25_OneAtATimeThroughRepublisher ==
    \A r \in Requests :
        (req[r].op \in ReplayOps /\ Pulled(req[r]))
            => \A k \in 1..Len(req[r].messages) : k \in PositionsPublishedBy(r)

\* C25 as the code has it: a replay pulls its deliveries one at a time, each
\* acknowledged and inspected before the next is pulled; the selected ones are
\* gathered while the scan continues and none is republished before the scan
\* has ended; the republisher then takes them one at a time.
C25_GatheredThenRepublished ==
    \A r \in Requests :
        LET q == req[r]
        IN  q.op \in ReplayOps =>
              /\ q.received - q.acked \in {0, 1}
              /\ q.pc = "next" => q.acked = q.received
              /\ q.pc \in {"lease", "setup", "next", "ack", "handle"} => PublishedBy(r) = {}
              /\ PublishedBy(r) # {} =>
                    /\ q.loop_exit \in {"break", "consumer"}
                    /\ Cardinality(PublishedBy(r)) <= Len(q.messages)
                    /\ Cardinality(PublishedBy(r)) \in {q.next - 1, q.next}

\* a replay has selected a delivery and pulled the next one, the selected one
\* not republished
C25_Witness ==
    \E r \in Requests :
        /\ req[r].op \in ReplayOps /\ Pulled(req[r])
        /\ req[r].received = 2 /\ Len(req[r].messages) = 1
        /\ PublishedBy(r) = {}

-----------------------------------------------------------------------------
(* C26: connections and channels under concurrency *)

\* the positions at which a request works on a connection it has leased
OnConnection ==
    {"setup", "next", "ack", "handle", "publish_channel", "publish", "publish_await",
     "publish_record", "health_channel"}

\* no request other than r is in flight
RunsAlone(r) == \A s \in Requests \ {r} : req[s].pc \in {"idle", "done"}

\* C26: with requests running concurrently the connections in use are held by
\* one request each, never more than the pool has; a request consumes and
\* publishes only on a channel of the connection it holds; a request holds at
\* most one connection at any instant, a replay having returned that of its
\* scan when publish_message asks for one, so that a request running alone
\* never waits for the pool.
C26_OneConnectionPerRequest ==
    /\ Cardinality(Leased) <= PoolSize
    /\ free = PoolSize - Cardinality(Leased)
    /\ \A r \in Requests :
          LET q == req[r]
          IN  /\ q.leased <=> q.pc \in OnConnection
              /\ q.consumer <=> q.pc \in {"next", "ack", "handle"}
              /\ q.pc \in {"lease", "publish_lease"} => ~q.leased /\ ~q.consumer
              /\ (q.pc \in {"lease", "publish_lease"} /\ RunsAlone(r)) => free >= 1

\* a replay is publishing on the connection it leased after its scan, the
\* other request waits for the pool
C26_Witness ==
    \E r, s \in Requests :
        /\ r # s
        /\ req[r].pc = "publish" /\ req[r].leased /\ req[r].loop_exit = "break"
        /\ req[s].pc \in {"lease", "publish_lease"}
        /\ free = 0

\* a replay running alone on a pool of one connection has ended with its report
C26_AloneCompletes ==
    \E r \in Requests :
        /\ RunsAlone(r) /\ req[r].op \in ReplayOps
        /\ req[r].pc = "done" /\ req[r].result = "Ok" /\ Len(req[r].records) >= 1
        /\ free = PoolSize

-----------------------------------------------------------------------------
(* C27: a scan is bounded by the probed count *)

\* the offsets of the stream are strictly increasing and not negative
IncreasingOffsets ==
    /\ \A i \in 1..Len(stream) : WellFormed(stream[i]) /\ OffsetOf(stream[i]) >= 0
    /\ \A i, j \in 1..Len(stream) : i < j => OffsetOf(stream[i]) < OffsetOf(stream[j])

\* C27: on a stream whose offsets are strictly increasing and not negative,
\* starting at 0 or not, contiguous or not, a scan with a probe count >= 1
\* handles at most `count` deliveries and asks for no further one after that,
\* and its list or selection never has more than `count` entries.
C27_ScanBoundedByCount ==
    \A r \in Requests :
        LET q == req[r]
        IN  (IncreasingOffsets /\ q.message_count >= 1) =>
              /\ q.received <= q.message_count
              /\ q.pc = "next" => q.received < q.message_count
              /\ Len(q.messages) <= q.message_count
              /\ Len(q.records) <= q.message_count

\* a scan probed 2 on a stream that starts after offset 0 and has a gap: it
\* stopped at the first delivery, whose offset is already >= 1
C27_Witness ==
    \E r \in Requests :
        /\ req[r].message_count = 2 /\ req[r].received = 1
        /\ req[r].loop_exit = "break"
        /\ Len(stream) = 2
        /\ OffsetOf(stream[1]) >= 1 /\ OffsetOf(stream[2]) > OffsetOf(stream[1]) + 1

\* a replay probed 1 on a stream that starts after offset 0: it selected the
\* one message, republished it and returned; the copy follows at the next offset
C27_ReplayReturned ==
    \E r \in Requests :
        /\ req[r].op \in ReplayOps /\ req[r].pc = "done" /\ req[r].result = "Ok"
        /\ req[r].message_count = 1 /\ Len(req[r].records) = 1
        /\ Len(published) = 1 /\ Len(stream) = 2
        /\ OffsetOf(stream[1]) >= 1 /\ OffsetOf(stream[2]) = OffsetOf(stream[1]) + 1

-----------------------------------------------------------------------------
(* C28: a replay by header can be run again *)

\* the delivery of the k-th publish, had it been appended at offset `off`
CopyAt(k, off) == Deliver(published[k].message, "ok", off)

\* the i-th message of the stream is a republished copy
IsCopy(i) ==
    \E k \in 1..Len(published) :
        RoutesToQueue(published[k].message) /\ stream[i] = CopyAt(k, i - 1)

\* the number of entries of s that satisfy Test
CountOf(s, Test(_)) == Cardinality({i \in 1..Len(s) : Test(s[i])})

\* the scan of q has covered the stream as it was at its probe
ScannedSnapshot(q) == q.op = "header" /\ q.loop_exit = "break" /\ ScansStream(q)

\* C28: what a replay by header {H, V} republishes does not bind H to V, the
\* copy carrying a fresh id under the configured transaction header and none
\* of the original headers: the messages of the stream that match {H, V} are
\* those that matched before, and of two replays with the same {H, V} whose
\* snapshots hold the same messages of other publishers, the later, which
\* scans the copies of the earlier, selects as many messages as the earlier.
C28_HeaderReplayIsRerunnable ==
    /\ \A k \in 1..Len(published) :
          LET q == req[published[k].request]
          IN  q.op = "header" =>
                ~BindsText(CopyAt(k, 0), q.header.name, q.header.value)
    /\ \A r, s \in Requests :
          LET Original(q) == {i \in 1..q.message_count : ~IsCopy(i)}
          IN  (ScannedSnapshot(req[r]) /\ ScannedSnapshot(req[s])
                 /\ req[r].header = req[s].header
                 /\ Original(req[r]) = Original(req[s]))
              => Len(req[r].messages) = Len(req[s].messages)

\* the second of two replays for the same header scanned the message and the
\* copy the first had republished, and selected the message alone
C28_Witness ==
    \E r, s \in Requests :
        /\ r # s
        /\ ScannedSnapshot(req[r]) /\ ScannedSnapshot(req[s])
        /\ req[r].header = req[s].header
        /\ req[r].message_count = 1 /\ req[s].message_count = 2
        /\ published # <<>> /\ published[1].request = r
        /\ IsCopy(2) /\ ~IsCopy(1)
        /\ Len(req[r].messages) = 1 /\ Len(req[s].messages) = 1

-----------------------------------------------------------------------------
(* C29: a replay does not feed on its own copies *)

\* the scan of request r has received a copy that r itself had published
ConsumedOwnCopy(r) ==
    \E i \in 1..req[r].received : \E k \in PublishedBy(r) :
        RoutesToQueue(published[k].message) /\ stream[i] = CopyAt(k, i - 1)

PublishesAfterScan(r) ==
    /\ PublishedBy(r) # {} =>
          /\ req[r].loop_exit # "none"
          /\ req[r].pc \in {"publish", "publish_await", "publish_record", "done"}
    /\ ~ConsumedOwnCopy(r)
    /\ Cardinality(PublishedBy(r)) <= req[r].message_count

\* C29: a replay publishes nothing until its scan has ended, so with its
\* copies routed back onto the queue it scans it never receives one of them,
\* publishes at most `count` messages, and, the stream holding the `count`
\* messages it probed, comes to its end.
C29_ReplayDoesNotFeedOnItself ==
    /\ [](\A r \in Requests : PublishesAfterScan(r))
    /\ \A r \in Requests :
          (req[r].op \in ReplayOps /\ ScansStream(req[r])) ~> (req[r].pc = "done")

\* a replay by time frame has ended after it published two copies that lie
\* in its own window onto the stream it had scanned
C29_Witness ==
    \E r \in Requests :
        /\ req[r].op = "time_frame" /\ req[r].pc = "done" /\ req[r].result = "Ok"
        /\ req[r].message_count = 2 /\ req[r].received = 2
        /\ Cardinality(PublishedBy(r)) = 2
        /\ Len(stream) = 4
        /\ Matches(req[r], stream[3]) /\ Matches(req[r], stream[4])

-----------------------------------------------------------------------------
(* C30: publish, then decode *)

\* the records the handler answers with: those of Ok(..), none with an error
ResponseRecords(q) == IF q.result = "Ok" THEN q.records ELSE <<>>

\* the replay of q has ended on a payload it could not decode
DecodeFailed(q) ==
    q.op \in ReplayOps /\ q.pc = "done" /\ q.err = "invalid utf-8 sequence"

\* C30: publish_message publishes a message before it decodes the payload
\* for the record: when the decoding of the k-th selected message fails, the
\* first k messages, the undecodable one among them, have been published, and
\* the request returns an error and no record.
C30_PublishedBeforeDecoded ==
    \A r \in Requests :
        LET q == req[r]
            k == q.next
        IN  DecodeFailed(q) =>
              /\ q.result = "Err"
              /\ k \in 1..Len(q.messages)
              /\ ~IsUtf8(q.messages[k].data)
              /\ \A j \in 1..(k - 1) : IsUtf8(q.messages[j].data)
              /\ PositionsPublishedBy(r) = 1..k
              /\ Cardinality(PublishedBy(r)) = k
              /\ PublishedAt(r, k).message.data = q.messages[k].data
              /\ Len(q.records) = k - 1
              /\ ResponseRecords(q) = <<>>

\* the second of two selected messages was published and then found not to
\* be UTF-8
C30_Witness ==
    \E r \in Requests :
        /\ DecodeFailed(req[r])
        /\ req[r].next = 2 /\ Len(req[r].messages) = 2
        /\ Cardinality(PublishedBy(r)) = 2
        /\ ~IsUtf8(PublishedAt(r, 2).message.data)

====
